---- MODULE Spec2Model ----
(***************************************************************************)
(* procgenac/modelling/training.py: train_model and evaluate_model as a    *)
(* state machine.  One action per statement group of the two functions;    *)
(* pc is the position of the single thread of control.                     *)
(*                                                                         *)
(* The Trajectory Store (procgenac.utils.Storage) is imported by           *)
(* training.py and its code is not part of the sources at hand; its        *)
(* operations are modelled from the design document (section 4.1).         *)
(* The environment and the policy network are external collaborators:      *)
(* they are modelled as deterministic dummies chosen at start (env_kind),  *)
(* which is sound for the control flow because train_model and             *)
(* evaluate_model never branch on an observation, reward, done flag or     *)
(* value.  The arithmetic of the store is checked under SpecGAE, whose      *)
(* initial states draw the window contents freely.                         *)
(***************************************************************************)
EXTENDS Integers, Sequences, FiniteSets, TLC

VARIABLES
    \* arguments of train_model
    num_envs, num_steps, num_epochs, batch_size, total_steps,
    get_test_error, has_eval_env, env_kind,
    \* locals of train_model
    pc, obs, eval_obs, step, n_updates, update_ite,
    steps, train_rewards, test_rewards, i, epoch, generator, batch,
    \* collaborators
    model, optimizer, storage, env, eval_env,
    \* locals of evaluate_model
    ev,
    \* bookkeeping of the calls made in the current rollout
    calls

args == <<num_envs, num_steps, num_epochs, batch_size, total_steps,
          get_test_error, has_eval_env, env_kind>>
locals == <<obs, eval_obs, step, n_updates, update_ite, steps,
            train_rewards, test_rewards, i, epoch, generator, batch>>
vars == <<args, pc, locals, model, optimizer, storage, env, eval_env, ev, calls>>

(***************************************************************************)
(* Bounds of the model.                                                    *)
(***************************************************************************)
MaxEnvs == 2
MaxNumSteps == 3
MaxWindow == 4          \* num_envs * num_steps of the runs explored
MaxEpochs == 2
MaxBatchSize == 2
MaxTotalSteps == 4
MaxLongWindow == 1      \* windows for which a budget >= 100 rollouts is run
MaxEvalSteps == 3       \* num_steps of a stand-alone evaluate_model call
MaxVersion == 1         \* parameter/optimizer versions a stand-alone call starts from
MaxCells == 3           \* cells of a window whose contents are drawn freely
MaxCollectSteps == 4    \* num_steps of the runs without update epochs

\* line 123: total_steps // (env.num_envs * num_steps * 100) + 1
LogDivisor == 100

\* the rewards and value estimates drawn for a free window
Scalars == {0, 1}

Envs == 1..num_envs
WindowSize == num_envs * num_steps

Min(a, b) == IF a < b THEN a ELSE b
CeilDiv(a, b) == (a + b - 1) \div b

(***************************************************************************)
(* Exact arithmetic with the discount factors kept symbolic.  A number is  *)
(* a polynomial  SUM c[<<a, b>>] * gamma^a * (gamma*lam)^b  with integer   *)
(* coefficients, a in 0..1: rewards and value estimates are integers,      *)
(* delta multiplies one value by gamma, and the advantage recursion        *)
(* multiplies by gamma*lam once per time step.                             *)
(***************************************************************************)
PolyIdx == (0..1) \X (0..MaxCollectSteps)
Const(c) == [k \in PolyIdx |-> IF k = <<0, 0>> THEN c ELSE 0]
PAdd(p, q) == [k \in PolyIdx |-> p[k] + q[k]]
PSub(p, q) == [k \in PolyIdx |-> p[k] - q[k]]
\* gamma * c for an integer c
GammaTimes(c) == [k \in PolyIdx |-> IF k = <<1, 0>> THEN c ELSE 0]
\* gamma * lam * p
GammaLamTimes(p) ==
    [k \in PolyIdx |-> IF k[2] = 0 THEN 0 ELSE p[<<k[1], k[2] - 1>>]]

(***************************************************************************)
(* Collaborators: the vectorized environment (reset/step) and the policy   *)
(* (act).  An observation is the stacked array returned by one reset or    *)
(* step call: <<environment, resets so far, steps since construction>>.    *)
(***************************************************************************)
NoObs == <<"none", 0, 0>>
NewEnv(name) == [name |-> name, resets |-> 0, clock |-> 0, last_action |-> -1,
                 renders |-> 0]
EnvObs(e) == <<e.name, e.resets, e.clock>>
\* env.reset(): a new episode in every instance; returns the observation
EnvReset(e) == [e EXCEPT !.resets = @ + 1]
\* reward and done flag of instance k at the c-th step
EnvReward(kind, k, c) == IF kind = "ones" THEN 1 ELSE (c + k) % 2
EnvDone(kind, k, c) == IF kind = "ones" THEN FALSE ELSE (c + k) % 3 = 0
\* env.step(action): advances every instance by one step
EnvStep(e, action) == [e EXCEPT !.clock = @ + 1, !.last_action = action]
StepReward(e, kind) == [k \in Envs |-> EnvReward(kind, k, e.clock)]
StepDone(e, kind) == [k \in Envs |-> EnvDone(kind, k, e.clock)]

\* model.act(obs): the value estimate depends on the parameters and the observation
ActValue(m, o) == [k \in Envs |-> (m.params + o[3] + k) % 2]
\* the action returned by the n-th act call is identified by n
ActAction(m) == m.acts + 1
\* faulty variant of Act: acting updates the parameters
ActUpdatingParams(m) ==
    [m EXCEPT !.acts = @ + 1, !.act_modes = @ \cup {m.training}, !.params = @ + 1]

Act(m) == [m EXCEPT !.acts = @ + 1, !.act_modes = @ \cup {m.training}]
\* line 183: model.grad_eps, the clipping threshold of the model
GradEps == 1
\* the global norm of the gradient that loss.backward() computes for a minibatch
LossGradNorm(m, b) == (m.params + Len(b)) % (GradEps + 2)
\* clip_grad_norm_(parameters, max_norm): rescales a gradient whose global
\* norm exceeds max_norm to norm max_norm
clip_grad_norm_(norm, max_norm) == Min(norm, max_norm)
NewModel == [training |-> TRUE, params |-> 0, grad |-> 0, clipped |-> FALSE,
             grad_norm |-> 0, grad_eps |-> GradEps,
             acts |-> 0, act_modes |-> {}, fwd_modes |-> {}]
NewOptimizer == [t |-> 0, grads_used |-> 0, clipped |-> TRUE, norm_used |-> 0]

(***************************************************************************)
(* Trajectory Store (procgenac.utils.Storage), from the design document.   *)
(* Rows 0..num_steps-1 are the window; row num_steps of obs and value is   *)
(* the bootstrap entry.  The design calls the store a ring buffer that is  *)
(* rewritten every rollout, and also says that more than num_steps store   *)
(* calls per rollout fail: here store fails at a full window, and          *)
(* store_last, which closes the window, rewinds the write position.        *)
(***************************************************************************)
NoStorage == [allocated |-> FALSE]
Storage(T, E) ==
    [allocated |-> TRUE, num_steps |-> T, num_envs |-> E, step |-> 0,
     failed |-> FALSE,
     obs |-> [t \in 0..T |-> NoObs],
     action |-> [t \in 0..(T - 1) |-> -1],
     reward |-> [t \in 0..(T - 1) |-> [k \in 1..E |-> 0]],
     done |-> [t \in 0..(T - 1) |-> [k \in 1..E |-> FALSE]],
     value |-> [t \in 0..T |-> [k \in 1..E |-> 0]],
     advantage |-> [t \in 0..(T - 1) |-> [k \in 1..E |-> Const(0)]],
     returns |-> [t \in 0..(T - 1) |-> [k \in 1..E |-> Const(0)]]]

\* faulty variant of store: a full window wraps around to position 0
store_wrapping(s, o, action, reward, done, value) ==
    LET at == s.step % s.num_steps
    IN [s EXCEPT !.obs[at] = o, !.action[at] = action, !.reward[at] = reward,
                 !.done[at] = done, !.value[at] = value, !.step = @ + 1]

store(s, o, action, reward, done, value) ==
    IF s.step >= s.num_steps
    THEN [s EXCEPT !.failed = TRUE]
    ELSE [s EXCEPT !.obs[s.step] = o, !.action[s.step] = action,
                   !.reward[s.step] = reward, !.done[s.step] = done,
                   !.value[s.step] = value, !.step = @ + 1]

\* faulty variant of store_last: the write position is left at the end
store_last_keeping_position(s, o, value) ==
    [s EXCEPT !.obs[s.num_steps] = o, !.value[s.num_steps] = value]

store_last(s, o, value) ==
    [s EXCEPT !.obs[s.num_steps] = o, !.value[s.num_steps] = value, !.step = 0]

\* faulty variant of Delta: the next value is not masked by the done flag
DeltaAcrossEpisodes(s, t, k) ==
    PSub(PAdd(Const(s.reward[t][k]), GammaTimes(s.value[t + 1][k])),
         Const(s.value[t][k]))

\* delta_t = reward_t + gamma * value_{t+1} * (1 - done_t) - value_t
Delta(s, t, k) ==
    PSub(PAdd(Const(s.reward[t][k]),
              IF s.done[t][k] THEN Const(0) ELSE GammaTimes(s.value[t + 1][k])),
         Const(s.value[t][k]))

\* A_t = delta_t + gamma * lam * (1 - done_t) * A_{t+1}, backwards from the
\* last step, whose successor is the bootstrap entry (A_{num_steps} = 0)
RECURSIVE Advantage(_, _, _)
Advantage(s, t, k) ==
    IF t >= s.num_steps THEN Const(0)
    ELSE PAdd(Delta(s, t, k),
              IF s.done[t][k] THEN Const(0)
              ELSE GammaLamTimes(Advantage(s, t + 1, k)))

\* faulty variant of compute_return_advantage: the return uses the next value
compute_return_advantage_shifted(s) ==
    LET adv == [t \in 0..(s.num_steps - 1) |->
                  [k \in 1..s.num_envs |-> Advantage(s, t, k)]]
    IN [s EXCEPT !.advantage = adv,
                 !.returns = [t \in 0..(s.num_steps - 1) |->
                     [k \in 1..s.num_envs |->
                         PAdd(adv[t][k], Const(s.value[t + 1][k]))]]]

compute_return_advantage(s) ==
    LET adv == [t \in 0..(s.num_steps - 1) |->
                  [k \in 1..s.num_envs |-> Advantage(s, t, k)]]
    IN [s EXCEPT !.advantage = adv,
                 !.returns = [t \in 0..(s.num_steps - 1) |->
                     [k \in 1..s.num_envs |-> PAdd(adv[t][k], Const(s.value[t][k]))]]]

\* faulty variant of Perms: indices sampled with replacement
IndexSamples(n) == [1..n -> 0..(n - 1)]

\* the permutations of the flattened (time x instance) indices 0..n-1
Perms(n) == {p \in [1..n -> 0..(n - 1)] : \A a, b \in 1..n : p[a] = p[b] => a = b}

\* get_generator(batch_size): a lazy sequence over one permutation
get_generator(s, bs, perm) == [perm |-> perm, batch_size |-> bs, pos |-> 0]
Exhausted(g) == g.pos >= Len(g.perm)
\* next(generator): the next minibatch (its flattened indices) ...
NextBatchOf(g) ==
    [j \in 1..Min(g.batch_size, Len(g.perm) - g.pos) |-> g.perm[g.pos + j]]
\* ... and the generator after yielding it
Advance(g) == [g EXCEPT !.pos = @ + g.batch_size]
NoGenerator == [perm |-> <<>>, batch_size |-> 0, pos |-> 0]

RECURSIVE SumTo(_, _)
SumTo(f, n) == IF n < 0 THEN 0 ELSE f[n] + SumTo(f, n - 1)
\* get_reward(): per-instance sums over the window, averaged over the instances
get_reward(s) ==
    LET per == [k \in 1..s.num_envs |->
                   SumTo([t \in 0..(s.num_steps - 1) |-> s.reward[t][k]], s.num_steps - 1)]
        tot == SumTo([k \in 0..(s.num_envs - 1) |-> per[k + 1]], s.num_envs - 1)
    IN [sum |-> tot, over |-> s.num_envs]

(***************************************************************************)
(* Bookkeeping: the calls made since the current rollout began (reset at   *)
(* the top of the outer loop), the minibatches the current generator has   *)
(* yielded, the operations applied to the current minibatch, and the       *)
(* actions the bootstrap act calls returned (kept for the whole run).      *)
(***************************************************************************)
NoCalls == [store |-> 0, store_last |-> 0, compute_return_advantage |-> 0,
            get_generator |-> 0, exhausted |-> 0, env_step |-> 0,
            optimizer_step |-> 0, batches |-> <<>>, ops |-> <<>>,
            rollouts |-> 0, boot_actions |-> {}]
NewRollout(c) == [NoCalls EXCEPT !.rollouts = c.rollouts + 1,
                                 !.boot_actions = c.boot_actions]

NoEval == [active |-> FALSE]
\* the frame of a call evaluate_model(model, eval_env, obs, num_steps, video)
EvalCall(o, n, video) ==
    [active |-> TRUE, obs |-> o, start_obs |-> o, num_steps |-> n, video |-> video,
     i |-> 0, total_reward |-> <<>>, frames |-> <<>>, saved |-> <<>>,
     result |-> <<>>]

\* faulty variant of LoopCondition: the budget itself starts another rollout
LoopConditionInclusive == step <= total_steps

\* line 124: while step < total_steps
LoopCondition == step < total_steps
\* faulty variant of UpdateInterval: the divisor is applied twice
UpdateIntervalCoarse ==
    total_steps \div (num_envs * num_steps * LogDivisor * LogDivisor) + 1

\* line 123
UpdateInterval == total_steps \div (num_envs * num_steps * LogDivisor) + 1
\* faulty variant of StatsDue: the rollout is counted before it is finished
StatsDueCountingAhead == (n_updates + 1) % update_ite = 0

\* line 142
StatsDue == n_updates % update_ite = 0
\* faulty variant of StepsPerRollout: the instances are not counted
StepsPerRolloutOfOneInstance == num_steps

\* line 156
StepsPerRollout == num_envs * num_steps

(***************************************************************************)
(* train_model                                                             *)
(***************************************************************************)
\* lines 105-123; eval_env.reset() on the default eval_env=None raises
Setup ==
    /\ pc = "start"
    /\ optimizer' = NewOptimizer
    /\ storage' = Storage(num_steps, num_envs)
    /\ steps' = <<>> /\ train_rewards' = <<>> /\ test_rewards' = <<>>
    /\ env' = EnvReset(env)
    /\ obs' = EnvObs(env')
    /\ IF has_eval_env
       THEN /\ eval_env' = EnvReset(eval_env)
            /\ eval_obs' = EnvObs(eval_env')
            /\ step' = 0 /\ n_updates' = 0
            /\ update_ite' = UpdateInterval
            /\ pc' = "while"
       ELSE /\ pc' = "error"
            /\ UNCHANGED <<eval_env, eval_obs, step, n_updates, update_ite>>
    /\ UNCHANGED <<args, i, epoch, generator, batch, model, ev, calls>>

\* lines 124-127: the loop is entered; model.eval()
WhileEnter ==
    /\ pc = "while"
    /\ LoopCondition
    /\ model' = [model EXCEPT !.training = FALSE]
    /\ i' = 0
    /\ calls' = NewRollout(calls)
    /\ pc' = "collect"
    /\ UNCHANGED <<args, obs, eval_obs, step, n_updates, update_ite, steps,
                   train_rewards, test_rewards, epoch, generator, batch,
                   optimizer, storage, env, eval_env, ev>>

\* lines 128-139: one iteration of the collection loop
Collect ==
    /\ pc = "collect"
    /\ i < num_steps
    /\ LET action == ActAction(model)
           value == ActValue(model, obs)
           stepped == EnvStep(env, action)
           next_obs == EnvObs(stepped)
           reward == StepReward(stepped, env_kind)
           done == StepDone(stepped, env_kind)
           stored == store(storage, obs, action, reward, done, value)
       IN /\ model' = Act(model)
          /\ env' = stepped
          /\ storage' = stored
          /\ calls' = [calls EXCEPT !.env_step = @ + 1, !.store = @ + 1]
          /\ IF stored.failed
             THEN pc' = "error" /\ UNCHANGED <<obs, i>>
             ELSE pc' = "collect" /\ obs' = next_obs /\ i' = i + 1
    /\ UNCHANGED <<args, eval_obs, step, n_updates, update_ite, steps,
                   train_rewards, test_rewards, epoch, generator, batch,
                   optimizer, eval_env, ev>>

\* line 128: the collection loop ends
CollectEnd ==
    /\ pc = "collect"
    /\ i >= num_steps
    /\ pc' = "stats"
    /\ UNCHANGED <<args, locals, model, optimizer, storage, env, eval_env, ev, calls>>

\* lines 142-151: a stats record; with get_test_error, evaluate_model is called
UpdateStats ==
    /\ pc = "stats"
    /\ StatsDue
    /\ steps' = Append(steps, step)
    /\ train_rewards' = Append(train_rewards, get_reward(storage))
    /\ IF get_test_error
       THEN /\ ev' = EvalCall(eval_obs, num_steps, FALSE)
            /\ pc' = "evaluate_model"
       ELSE /\ pc' = "add_steps"
            /\ UNCHANGED ev
    /\ UNCHANGED <<args, obs, eval_obs, step, n_updates, update_ite, test_rewards,
                   i, epoch, generator, batch, model, optimizer, storage, env,
                   eval_env, calls>>

\* line 142: no record in this rollout
SkipStats ==
    /\ pc = "stats"
    /\ ~StatsDue
    /\ pc' = "add_steps"
    /\ UNCHANGED <<args, locals, model, optimizer, storage, env, eval_env, ev, calls>>

\* faulty variant of TestRewards: the returned observation is dropped
TestRewardsDroppingObs ==
    /\ pc = "evaluated"
    /\ test_rewards' = Append(test_rewards, ev.result[1])
    /\ ev' = NoEval
    /\ pc' = "add_steps"
    /\ UNCHANGED <<args, obs, eval_obs, step, n_updates, update_ite, steps,
                   train_rewards, i, epoch, generator, batch, model, optimizer,
                   storage, env, eval_env, calls>>

\* lines 151-152: test_rew, eval_obs = evaluate_model(...); test_rewards.append
TestRewards ==
    /\ pc = "evaluated"
    /\ test_rewards' = Append(test_rewards, ev.result[1])
    /\ eval_obs' = ev.result[2]
    /\ ev' = NoEval
    /\ pc' = "add_steps"
    /\ UNCHANGED <<args, obs, step, n_updates, update_ite, steps, train_rewards,
                   i, epoch, generator, batch, model, optimizer, storage, env,
                   eval_env, calls>>

\* line 156
AddSteps ==
    /\ pc = "add_steps"
    /\ step' = step + StepsPerRollout
    /\ pc' = "bootstrap"
    /\ UNCHANGED <<args, obs, eval_obs, n_updates, update_ite, steps, train_rewards,
                   test_rewards, i, epoch, generator, batch, model, optimizer,
                   storage, env, eval_env, ev, calls>>

\* faulty variant of Bootstrap: the bootstrap action is executed
BootstrapSteppingEnv ==
    /\ pc = "bootstrap"
    /\ model' = Act(model)
    /\ env' = EnvStep(env, ActAction(model))
    /\ storage' = store_last(storage, obs, ActValue(model, obs))
    /\ calls' = [calls EXCEPT !.store_last = @ + 1,
                              !.boot_actions = @ \cup {ActAction(model)}]
    /\ pc' = "compute"
    /\ UNCHANGED <<args, locals, optimizer, eval_env, ev>>

\* faulty variant of Bootstrap: the bootstrap entry is never stored
BootstrapWithoutStoreLast ==
    /\ pc = "bootstrap"
    /\ model' = Act(model)
    /\ calls' = [calls EXCEPT !.boot_actions = @ \cup {ActAction(model)}]
    /\ pc' = "compute"
    /\ UNCHANGED <<args, locals, optimizer, storage, env, eval_env, ev>>

\* lines 159-160: the value of the next observation; its action is dropped
Bootstrap ==
    /\ pc = "bootstrap"
    /\ model' = Act(model)
    /\ storage' = store_last(storage, obs, ActValue(model, obs))
    /\ calls' = [calls EXCEPT !.store_last = @ + 1,
                              !.boot_actions = @ \cup {ActAction(model)}]
    /\ pc' = "compute"
    /\ UNCHANGED <<args, locals, optimizer, env, eval_env, ev>>

\* line 163
ComputeReturnAdvantage ==
    /\ pc = "compute"
    /\ storage' = compute_return_advantage(storage)
    /\ calls' = [calls EXCEPT !.compute_return_advantage = @ + 1]
    /\ pc' = "train"
    /\ UNCHANGED <<args, locals, model, optimizer, env, eval_env, ev>>

\* faulty variant of ModelTrain: the mode is left as the collection pass set it
ModelTrainOmitted ==
    /\ pc = "train"
    /\ epoch' = 0
    /\ pc' = "epoch"
    /\ UNCHANGED <<args, obs, eval_obs, step, n_updates, update_ite, steps,
                   train_rewards, test_rewards, i, generator, batch, model,
                   optimizer, storage, env, eval_env, ev, calls>>

\* lines 166-167: model.train(); the epoch loop starts
ModelTrain ==
    /\ pc = "train"
    /\ model' = [model EXCEPT !.training = TRUE]
    /\ epoch' = 0
    /\ pc' = "epoch"
    /\ UNCHANGED <<args, obs, eval_obs, step, n_updates, update_ite, steps,
                   train_rewards, test_rewards, i, generator, batch, optimizer,
                   storage, env, eval_env, ev, calls>>

\* faulty variant of EpochBegin: one generator, made in the first epoch
EpochBeginReusingGenerator ==
    /\ pc = "epoch"
    /\ epoch < num_epochs
    /\ IF epoch = 0
       THEN /\ \E perm \in Perms(WindowSize) :
                  generator' = get_generator(storage, batch_size, perm)
            /\ calls' = [calls EXCEPT !.get_generator = @ + 1, !.batches = <<>>]
       ELSE UNCHANGED <<generator, calls>>
    /\ pc' = "batch"
    /\ UNCHANGED <<args, obs, eval_obs, step, n_updates, update_ite, steps,
                   train_rewards, test_rewards, i, epoch, batch, model, optimizer,
                   storage, env, eval_env, ev>>

\* lines 167-170: an epoch begins with a new generator over a new permutation
EpochBegin ==
    /\ pc = "epoch"
    /\ epoch < num_epochs
    /\ \E perm \in Perms(WindowSize) :
          generator' = get_generator(storage, batch_size, perm)
    /\ calls' = [calls EXCEPT !.get_generator = @ + 1, !.batches = <<>>]
    /\ pc' = "batch"
    /\ UNCHANGED <<args, obs, eval_obs, step, n_updates, update_ite, steps,
                   train_rewards, test_rewards, i, epoch, batch, model, optimizer,
                   storage, env, eval_env, ev>>

\* lines 167, 190: the epochs are over; n_updates += 1
EpochsEnd ==
    /\ pc = "epoch"
    /\ epoch >= num_epochs
    /\ n_updates' = n_updates + 1
    /\ pc' = "while"
    /\ UNCHANGED <<args, obs, eval_obs, step, update_ite, steps, train_rewards,
                   test_rewards, i, epoch, generator, batch, model, optimizer,
                   storage, env, eval_env, ev, calls>>

\* lines 172-173: the generator yields the next minibatch
NextBatch ==
    /\ pc = "batch"
    /\ ~Exhausted(generator)
    /\ batch' = NextBatchOf(generator)
    /\ generator' = Advance(generator)
    /\ calls' = [calls EXCEPT !.batches = Append(@, batch'), !.ops = <<>>]
    /\ pc' = "forward"
    /\ UNCHANGED <<args, obs, eval_obs, step, n_updates, update_ite, steps,
                   train_rewards, test_rewards, i, epoch, model, optimizer,
                   storage, env, eval_env, ev>>

\* line 172: the generator is exhausted; the next epoch
BatchesEnd ==
    /\ pc = "batch"
    /\ Exhausted(generator)
    /\ epoch' = epoch + 1
    /\ calls' = [calls EXCEPT !.exhausted = @ + 1]
    /\ pc' = "epoch"
    /\ UNCHANGED <<args, obs, eval_obs, step, n_updates, update_ite, steps,
                   train_rewards, test_rewards, i, generator, batch, model,
                   optimizer, storage, env, eval_env, ev>>

\* line 176: policy, value = model(b_obs)
Forward ==
    /\ pc = "forward"
    /\ model' = [model EXCEPT !.fwd_modes = @ \cup {model.training}]
    /\ calls' = [calls EXCEPT !.ops = Append(@, "forward")]
    /\ pc' = "criterion"
    /\ UNCHANGED <<args, locals, optimizer, storage, env, eval_env, ev>>

\* line 179: loss = model.criterion(batch, policy, value)
Criterion ==
    /\ pc = "criterion"
    /\ calls' = [calls EXCEPT !.ops = Append(@, "criterion")]
    /\ pc' = "backward"
    /\ UNCHANGED <<args, locals, model, optimizer, storage, env, eval_env, ev>>

\* line 180: loss.backward() adds the minibatch's gradient to the accumulated one
Backward ==
    /\ pc = "backward"
    /\ model' = [model EXCEPT !.grad = @ + 1, !.clipped = FALSE,
                              !.grad_norm = @ + LossGradNorm(model, batch)]
    /\ calls' = [calls EXCEPT !.ops = Append(@, "backward")]
    /\ pc' = "clip"
    /\ UNCHANGED <<args, locals, optimizer, storage, env, eval_env, ev>>

\* faulty variant of ClipGrad: the gradient is passed on as it is
ClipGradOmitted ==
    /\ pc = "clip"
    /\ model' = [model EXCEPT !.clipped = TRUE]
    /\ calls' = [calls EXCEPT !.ops = Append(@, "clip_grad_norm_")]
    /\ pc' = "opt_step"
    /\ UNCHANGED <<args, locals, optimizer, storage, env, eval_env, ev>>

\* line 183: clip_grad_norm_(model.parameters(), model.grad_eps)
ClipGrad ==
    /\ pc = "clip"
    /\ model' = [model EXCEPT !.clipped = TRUE,
                              !.grad_norm = clip_grad_norm_(@, model.grad_eps)]
    /\ calls' = [calls EXCEPT !.ops = Append(@, "clip_grad_norm_")]
    /\ pc' = "opt_step"
    /\ UNCHANGED <<args, locals, optimizer, storage, env, eval_env, ev>>

\* line 186: optimizer.step() changes the parameters and the optimizer state
OptimizerStep ==
    /\ pc = "opt_step"
    /\ model' = [model EXCEPT !.params = @ + 1]
    /\ optimizer' = [t |-> optimizer.t + 1, grads_used |-> model.grad,
                     clipped |-> model.clipped, norm_used |-> model.grad_norm]
    /\ calls' = [calls EXCEPT !.optimizer_step = @ + 1,
                              !.ops = Append(@, "optimizer.step")]
    /\ pc' = "zero_grad"
    /\ UNCHANGED <<args, locals, storage, env, eval_env, ev>>

\* faulty variant of ZeroGrad: the gradients are left as they are
ZeroGradOmitted ==
    /\ pc = "zero_grad"
    /\ pc' = "batch"
    /\ UNCHANGED <<args, locals, model, optimizer, storage, env, eval_env, ev, calls>>

\* line 187: optimizer.zero_grad()
ZeroGrad ==
    /\ pc = "zero_grad"
    /\ model' = [model EXCEPT !.grad = 0, !.clipped = FALSE, !.grad_norm = 0]
    /\ calls' = [calls EXCEPT !.ops = Append(@, "optimizer.zero_grad")]
    /\ pc' = "batch"
    /\ UNCHANGED <<args, locals, optimizer, storage, env, eval_env, ev>>

\* lines 124, 192-197: the loop is left; torch.stack raises on an empty list
Return ==
    /\ pc = "while"
    /\ ~LoopCondition
    /\ pc' = IF train_rewards = <<>> THEN "error" ELSE "done"
    /\ UNCHANGED <<args, locals, model, optimizer, storage, env, eval_env, ev, calls>>

(***************************************************************************)
(* evaluate_model                                                          *)
(***************************************************************************)
\* lines 201-205: frames = [], total_reward = [], model.eval()
EvalEnter ==
    /\ pc = "evaluate_model"
    /\ model' = [model EXCEPT !.training = FALSE]
    /\ pc' = "evaluate"
    /\ UNCHANGED <<args, locals, optimizer, storage, env, eval_env, ev, calls>>

\* faulty variant of EvalStep: the transition is stored as in the collection loop
EvalStepStoring ==
    /\ pc = "evaluate"
    /\ ev.i < ev.num_steps
    /\ LET stepped == EnvStep(eval_env, ActAction(model))
           rendered == IF ev.video THEN [stepped EXCEPT !.renders = @ + 1]
                       ELSE stepped
       IN /\ model' = Act(model)
          /\ eval_env' = rendered
          /\ storage' = store(storage, ev.obs, ActAction(model),
                              StepReward(stepped, env_kind),
                              StepDone(stepped, env_kind), ActValue(model, ev.obs))
          /\ ev' = [ev EXCEPT
                      !.obs = EnvObs(stepped),
                      !.total_reward = Append(@, StepReward(stepped, env_kind)),
                      !.frames = IF ev.video THEN Append(@, stepped.clock) ELSE @,
                      !.i = @ + 1]
    /\ UNCHANGED <<args, pc, locals, optimizer, env, calls>>

\* lines 206-218: one step of the evaluation loop
EvalStep ==
    /\ pc = "evaluate"
    /\ ev.i < ev.num_steps
    /\ LET stepped == EnvStep(eval_env, ActAction(model))
           rendered == IF ev.video THEN [stepped EXCEPT !.renders = @ + 1]
                       ELSE stepped
       IN /\ model' = Act(model)
          /\ eval_env' = rendered
          /\ ev' = [ev EXCEPT
                      !.obs = EnvObs(stepped),
                      !.total_reward = Append(@, StepReward(stepped, env_kind)),
                      !.frames = IF ev.video THEN Append(@, stepped.clock) ELSE @,
                      !.i = @ + 1]
    /\ UNCHANGED <<args, pc, locals, optimizer, storage, env, calls>>

\* faulty variant of EvalReturn: the rewards of the last step are returned
EvalReturnLastStep ==
    /\ pc = "evaluate"
    /\ ev.i >= ev.num_steps
    /\ ev' = [ev EXCEPT
                !.saved = IF ev.video THEN Append(@, ev.frames) ELSE @,
                !.result = IF ev.total_reward = <<>> THEN <<"error", ev.obs>>
                           ELSE <<ev.total_reward[Len(ev.total_reward)], ev.obs>>]
    /\ pc' = IF ev.total_reward = <<>> THEN "error" ELSE "evaluated"
    /\ UNCHANGED <<args, locals, model, optimizer, storage, env, eval_env, calls>>

\* lines 206, 220-225: save_video with video; return the summed rewards and obs
EvalReturn ==
    /\ pc = "evaluate"
    /\ ev.i >= ev.num_steps
    /\ ev' = [ev EXCEPT
                !.saved = IF ev.video THEN Append(@, ev.frames) ELSE @,
                !.result = IF ev.total_reward = <<>> THEN <<"error", ev.obs>>
                           ELSE <<[k \in Envs |->
                                     SumTo([n \in 0..(Len(ev.total_reward) - 1) |->
                                              ev.total_reward[n + 1][k]],
                                           Len(ev.total_reward) - 1)],
                                  ev.obs>>]
    /\ pc' = IF ev.total_reward = <<>> THEN "error" ELSE "evaluated"
    /\ UNCHANGED <<args, locals, model, optimizer, storage, env, eval_env, calls>>

(***************************************************************************)
(* Specifications                                                          *)
(***************************************************************************)
\* the budgets explored: short ones, one rollout exactly, and for small
\* windows taken in the largest minibatches the longest one with update_ite = 2
TotalStepsChoices(n) ==
    (0..MaxTotalSteps) \cup {n}
        \cup (IF n <= MaxLongWindow /\ batch_size = MaxBatchSize
              THEN {2 * LogDivisor * n - 1} ELSE {})

IdleLocals ==
    /\ obs = NoObs /\ eval_obs = NoObs /\ step = 0 /\ n_updates = 0
    /\ update_ite = 1 /\ steps = <<>> /\ train_rewards = <<>>
    /\ test_rewards = <<>> /\ i = 0 /\ epoch = 0
    /\ generator = NoGenerator /\ batch = <<>>

\* train_model is called
Init ==
    /\ num_envs \in 1..MaxEnvs
    /\ num_steps \in 1..MaxCollectSteps
    /\ num_epochs \in 0..MaxEpochs
    /\ \/ num_steps <= MaxNumSteps /\ num_envs * num_steps <= MaxWindow
       \/ num_epochs = 0
    /\ batch_size \in 1..MaxBatchSize
    /\ total_steps \in TotalStepsChoices(num_envs * num_steps)
    /\ get_test_error \in BOOLEAN
    /\ has_eval_env \in BOOLEAN
    /\ env_kind \in {"ones", "varied"}
    /\ pc = "start"
    /\ IdleLocals
    /\ model = NewModel
    /\ optimizer = NewOptimizer
    /\ storage = NoStorage
    /\ env = NewEnv("train")
    /\ eval_env = NewEnv("eval")
    /\ ev = NoEval
    /\ calls = NoCalls

Next ==
    \/ Setup \/ WhileEnter \/ Collect \/ CollectEnd \/ UpdateStats \/ SkipStats
    \/ EvalEnter \/ EvalStep \/ EvalReturn \/ TestRewards
    \/ AddSteps \/ Bootstrap \/ ComputeReturnAdvantage \/ ModelTrain
    \/ EpochBegin \/ EpochsEnd \/ NextBatch \/ BatchesEnd
    \/ Forward \/ Criterion \/ Backward \/ ClipGrad \/ OptimizerStep \/ ZeroGrad
    \/ Return

Spec == Init /\ [][Next]_vars

\* train_model is one sequential thread: it keeps running while it can
FairSpec == Spec /\ WF_vars(Next)

\* evaluate_model is called on its own (as training_pipeline does, line 77),
\* with any num_steps and video flag, on a policy and optimizer in any state
InitEval ==
    /\ num_envs \in 1..MaxEnvs
    /\ num_steps = 1 /\ num_epochs = 1 /\ batch_size = 1 /\ total_steps = 0
    /\ get_test_error = FALSE /\ has_eval_env = TRUE
    /\ env_kind \in {"ones", "varied"}
    /\ pc = "evaluate_model"
    /\ IdleLocals
    /\ \E training \in BOOLEAN, version \in 0..MaxVersion :
          model = [NewModel EXCEPT !.training = training, !.params = version]
    /\ \E t \in 0..MaxVersion : optimizer = [NewOptimizer EXCEPT !.t = t]
    /\ storage = Storage(num_steps, num_envs)
    /\ env = NewEnv("train")
    /\ eval_env = EnvReset(NewEnv("eval"))
    /\ \E n \in 0..MaxEvalSteps, video \in BOOLEAN :
          ev = EvalCall(EnvObs(eval_env), n, video)
    /\ calls = NoCalls

NextEval == EvalEnter \/ EvalStep \/ EvalReturn

SpecEval == InitEval /\ [][NextEval]_vars

\* a window as store and store_last leave it, its contents drawn freely
Windows(T, E) ==
    {[Storage(T, E) EXCEPT !.reward = r, !.done = d, !.value = v] :
        r \in [0..(T - 1) -> [1..E -> Scalars]],
        d \in [0..(T - 1) -> [1..E -> BOOLEAN]],
        v \in [0..T -> [1..E -> Scalars]]}

InitGAE ==
    /\ num_envs \in 1..MaxEnvs
    /\ num_steps \in 1..MaxNumSteps
    /\ num_envs * num_steps <= MaxCells
    /\ num_epochs = 0 /\ batch_size = 1 /\ total_steps = 0
    /\ get_test_error = FALSE /\ has_eval_env = TRUE /\ env_kind = "varied"
    /\ pc = "compute"
    /\ IdleLocals
    /\ model = NewModel
    /\ optimizer = NewOptimizer
    /\ storage \in Windows(num_steps, num_envs)
    /\ env = NewEnv("train")
    /\ eval_env = NewEnv("eval")
    /\ ev = NoEval
    /\ calls = NoCalls

\* the same window with one later entry changed, computed again
Recompute ==
    /\ pc = "train"
    /\ \E t \in 0..num_steps, k \in Envs, x \in Scalars, d \in BOOLEAN :
          storage' = compute_return_advantage(
              IF t = num_steps
              THEN [storage EXCEPT !.value[t][k] = x]
              ELSE [storage EXCEPT !.value[t][k] = x, !.reward[t][k] = x,
                                   !.done[t][k] = d])
    /\ UNCHANGED <<args, pc, locals, model, optimizer, env, eval_env, ev, calls>>

NextGAE == ComputeReturnAdvantage \/ Recompute

SpecGAE == InitGAE /\ [][NextGAE]_vars

(***************************************************************************)
(* The Trajectory Store on its own: a caller that stores any number of     *)
(* time steps, drawn from small sets, and may close the window in between. *)
(***************************************************************************)
MaxResets == 1

InitStore ==
    /\ num_envs \in 1..MaxEnvs
    /\ num_steps \in 1..MaxNumSteps
    /\ num_envs * num_steps <= MaxWindow
    /\ num_epochs = 0 /\ batch_size = 1 /\ total_steps = 0
    /\ get_test_error = FALSE /\ has_eval_env = TRUE /\ env_kind = "varied"
    /\ pc = "store_calls"
    /\ IdleLocals
    /\ model = NewModel
    /\ optimizer = NewOptimizer
    /\ storage = Storage(num_steps, num_envs)
    /\ env = NewEnv("train")
    /\ eval_env = NewEnv("eval")
    /\ ev = NoEval
    /\ calls = NoCalls

\* storage.store(...) once more; a capacity violation is fatal
StoreCall ==
    /\ pc = "store_calls"
    /\ \E x \in Scalars, y \in Scalars, d \in BOOLEAN :
          LET stored == store(storage, <<"train", calls.store_last, calls.store>>,
                              calls.store + 1, [k \in Envs |-> x],
                              [k \in Envs |-> d], [k \in Envs |-> y])
          IN /\ storage' = stored
             /\ pc' = IF stored.failed THEN "error" ELSE "store_calls"
    /\ calls' = [calls EXCEPT !.store = @ + 1]
    /\ UNCHANGED <<args, locals, model, optimizer, env, eval_env, ev>>

\* storage.store_last(...): the window is closed and the next one begins
StoreLastCall ==
    /\ pc = "store_calls"
    /\ calls.store_last < MaxResets
    /\ \E y \in Scalars :
          storage' = store_last(storage, <<"train", calls.store_last, calls.store>>,
                                [k \in Envs |-> y])
    /\ calls' = [calls EXCEPT !.store = 0, !.store_last = @ + 1]
    /\ UNCHANGED <<args, pc, locals, model, optimizer, env, eval_env, ev>>

NextStore == StoreCall \/ StoreLastCall

SpecStore == InitStore /\ [][NextStore]_vars

(***************************************************************************)
(* Properties                                                              *)
(***************************************************************************)
\* the positions of train_model at which the current rollout is complete
RolloutComplete == pc \in {"while", "done"} /\ calls.rollouts > 0

\* C1: in every rollout the store is driven in the order num_steps x store,
\* one store_last, one compute_return_advantage, and only then get_generator:
\* store_last only after exactly num_steps store calls, nothing stored after
\* it, compute_return_advantage only after store_last, get_generator only
\* after compute_return_advantage, and a complete rollout has made exactly
\* num_steps, 1 and 1 of the first three calls.
C1_StoreCallOrder ==
    /\ calls.store <= num_steps
    /\ calls.store_last <= 1
    /\ calls.compute_return_advantage <= 1
    /\ calls.store_last = 1 => calls.store = num_steps
    /\ calls.compute_return_advantage = 1 => calls.store_last = 1
    /\ calls.get_generator > 0 => calls.compute_return_advantage = 1
    /\ RolloutComplete =>
          /\ calls.store = num_steps
          /\ calls.store_last = 1
          /\ calls.compute_return_advantage = 1

\* the second rollout of a run with num_steps = 3 draws its second generator
C1_Witness ==
    /\ pc = "batch" /\ num_steps = 3
    /\ calls.rollouts = 2 /\ calls.get_generator = 2
    /\ calls.store = 3 /\ calls.store_last = 1

\* the advantage table after compute_return_advantage, cell by cell;
\* value_{num_steps} is the bootstrap value and A_{num_steps} = 0
C2_Recurrence ==
    pc = "train" =>
        \A t \in 0..(num_steps - 1), k \in Envs :
            LET r == storage.reward[t][k]
                v == storage.value[t][k]
                next_v == storage.value[t + 1][k]
                next_A == IF t + 1 < num_steps THEN storage.advantage[t + 1][k]
                          ELSE Const(0)
                A == storage.advantage[t][k]
            IN IF storage.done[t][k]
               THEN A = Const(r - v)
               ELSE A = PAdd(PSub(PAdd(Const(r), GammaTimes(next_v)), Const(v)),
                             GammaLamTimes(next_A))

\* the window is changed anywhere but in the reward and value of a done cell
\* and computed again: that cell's advantage is the same
C2_DoneIsolated ==
    [][(pc = "train" /\ pc' = "train") =>
          \A t \in 0..(num_steps - 1), k \in Envs :
              (/\ storage.done[t][k] /\ storage'.done[t][k]
               /\ storage'.reward[t][k] = storage.reward[t][k]
               /\ storage'.value[t][k] = storage.value[t][k])
              => storage'.advantage[t][k] = storage.advantage[t][k]]_vars

\* C2: after compute_return_advantage, a cell with done_t = true has
\* A_t = reward_t - value_t, whatever value_{t+1}, A_{t+1}, the bootstrap value
\* and the later rewards and values are, and a cell with done_t = false has
\* A_t = delta_t + gamma*lam*A_{t+1} with
\* delta_t = reward_t + gamma*value_{t+1} - value_t.
C2_Advantage == []C2_Recurrence /\ C2_DoneIsolated

\* rewards [1,1,1], values [0,0,0], done [F,T,F], bootstrap 0: A_1 = 1,
\* and A_0 = 1 + gamma*lam
C2_Witness ==
    /\ pc = "train" /\ num_steps = 3 /\ num_envs = 1
    /\ \A t \in 0..2 : storage.reward[t][1] = 1
    /\ \A t \in 0..3 : storage.value[t][1] = 0
    /\ ~storage.done[0][1] /\ storage.done[1][1] /\ ~storage.done[2][1]
    /\ storage.advantage[1][1] = Const(1)
    /\ storage.advantage[0][1] = PAdd(Const(1), GammaLamTimes(Const(1)))
    /\ storage.advantage[2][1] = Const(1)

\* the positions of train_model after line 156 and before line 190
AfterAddSteps == {"bootstrap", "compute", "train", "epoch", "batch", "forward",
                  "criterion", "backward", "clip", "opt_step", "zero_grad"}
\* train_model has ended after its loop was reached
LoopLeft == pc \in {"done", "error"} /\ has_eval_env

\* step and n_updates at every position, and at the end
C3_Counts ==
    /\ step = num_envs * num_steps
                 * (n_updates + IF pc \in AfterAddSteps THEN 1 ELSE 0)
    /\ calls.rollouts = n_updates + IF pc \in {"start", "while", "done", "error"}
                                    THEN 0 ELSE 1
    /\ LoopLeft =>
          /\ total_steps <= step
          /\ step < total_steps + num_envs * num_steps
          /\ n_updates = CeilDiv(total_steps, num_envs * num_steps)

\* train_model ends only from the loop test, never inside a rollout
C3_LeftOnlyAtTest ==
    [][(pc' \in {"done", "error"} /\ pc \notin {"start", "done", "error"})
          => (pc = "while" /\ step >= total_steps /\ step' = step)]_vars

GeneratorConsumed ==
    calls.get_generator > 0 /\ calls.exhausted = calls.get_generator
\* the places (minibatch, position) of the minibatches yielded so far
BatchPlaces ==
    {<<j, x>> \in (1..Len(calls.batches)) \X (1..batch_size) :
        x <= Len(calls.batches[j])}

\* C4: the minibatches yielded by one get_generator(batch_size) call
\* partition the num_steps*num_envs flattened indices of the window: no index
\* twice, every index once the generator is exhausted, sizes summing to N,
\* ceil(N/batch_size) minibatches, all but the last of size batch_size, and no
\* index of the bootstrap row (the rows from N on).
C4_Partition ==
    LET n == num_envs * num_steps
        b == calls.batches
    IN /\ \A j \in 1..Len(b) : Len(b[j]) \in 1..batch_size
       /\ \A j \in 1..(Len(b) - 1) : Len(b[j]) = batch_size
       /\ \A p \in BatchPlaces : b[p[1]][p[2]] \in 0..(n - 1)
       /\ \A p, q \in BatchPlaces : b[p[1]][p[2]] = b[q[1]][q[2]] => p = q
       /\ GeneratorConsumed =>
             /\ \A idx \in 0..(n - 1) : \E p \in BatchPlaces : b[p[1]][p[2]] = idx
             /\ Cardinality(BatchPlaces) = n
             /\ Len(b) = CeilDiv(n, batch_size)

\* three indices in minibatches of two: a shuffled order and a short last one
C4_Witness ==
    /\ GeneratorConsumed /\ pc = "epoch"
    /\ num_envs * num_steps = 3 /\ batch_size = 2
    /\ calls.batches = << <<2, 0>>, <<1>> >>

\* the positions of train_model inside the body of the minibatch loop
InMinibatch == pc \in {"forward", "criterion", "backward", "clip", "opt_step",
                       "zero_grad"}
BatchesPerGenerator == CeilDiv(num_envs * num_steps, batch_size)

\* C5: in every rollout get_generator is called num_epochs times, once at
\* the start of each epoch; a generator is made only when the one before it
\* is exhausted; the optimizer is stepped once per minibatch, which makes
\* num_epochs * ceil(num_steps*num_envs / batch_size) steps per rollout.
C5_GeneratorPerEpoch ==
    /\ calls.get_generator <= num_epochs
    /\ calls.get_generator - calls.exhausted \in {0, 1}
    /\ pc = "epoch" => calls.get_generator = epoch
    /\ (pc = "batch" \/ InMinibatch) =>
          /\ calls.get_generator = epoch + 1
          /\ calls.exhausted = epoch
    /\ GeneratorConsumed =>
          /\ Exhausted(generator)
          /\ Len(calls.batches) = BatchesPerGenerator
    /\ calls.optimizer_step =
          IF calls.get_generator = 0 THEN 0
          ELSE (calls.get_generator - 1) * BatchesPerGenerator + Len(calls.batches)
               - (IF pc \in {"forward", "criterion", "backward", "clip", "opt_step"}
                  THEN 1 ELSE 0)
    /\ RolloutComplete =>
          /\ calls.get_generator = num_epochs
          /\ calls.exhausted = num_epochs
          /\ calls.optimizer_step = num_epochs * BatchesPerGenerator

\* the second rollout of a run with two epochs of two minibatches each is over
C5_Witness ==
    /\ RolloutComplete /\ calls.rollouts = 2
    /\ num_epochs = 2 /\ num_envs * num_steps = 3 /\ batch_size = 2
    /\ calls.get_generator = 2 /\ calls.optimizer_step = 4

MinibatchOrder == <<"forward", "criterion", "backward", "clip_grad_norm_",
                    "optimizer.step", "optimizer.zero_grad">>

\* C6: each minibatch goes through forward pass, criterion, loss.backward,
\* clip_grad_norm_, optimizer.step, optimizer.zero_grad, in this order and
\* once each; the accumulated gradient is zero when loss.backward starts, and
\* every optimizer step uses the clipped gradient of exactly one minibatch.
C6_MinibatchOrder ==
    /\ Len(calls.ops) <= Len(MinibatchOrder)
    /\ \A j \in 1..Len(calls.ops) : calls.ops[j] = MinibatchOrder[j]
    /\ (calls.batches # <<>> /\ ~InMinibatch) => calls.ops = MinibatchOrder
    /\ pc = "backward" => (model.grad = 0 /\ Len(calls.ops) = 2)
    /\ pc = "opt_step" => (model.grad = 1 /\ model.clipped /\ Len(calls.ops) = 4)
    /\ optimizer.t > 0 => (optimizer.grads_used = 1 /\ optimizer.clipped)
    /\ ~InMinibatch => model.grad = 0

\* the third minibatch of a run is about to be backpropagated
C6_Witness ==
    /\ pc = "backward" /\ optimizer.t = 2 /\ model.grad = 0
    /\ calls.ops = <<"forward", "criterion">>

\* the positions of train_model from line 127 to line 166
CollectionPass == {"collect", "stats", "evaluate_model", "evaluate", "evaluated",
                   "add_steps", "bootstrap", "compute", "train"}

\* C7: from the start of a collection pass until model.train() (the
\* act/step/store iterations, an interleaved evaluate_model, the bootstrap
\* act and store_last) the parameters, the gradients and the optimizer state
\* do not change; the parameters change only in optimizer.step.
C7_FrozenWhileCollecting ==
    [][/\ (pc \in CollectionPass \/ (pc = "while" /\ pc' = "collect")) =>
             /\ model'.params = model.params
             /\ model'.grad = model.grad
             /\ optimizer' = optimizer
       /\ model'.params # model.params =>
             /\ pc = "opt_step"
             /\ calls'.ops = Append(calls.ops, "optimizer.step")]_vars

\* the second collection pass, with an evaluation in it, ends on updated parameters
C7_Witness ==
    /\ pc = "train" /\ calls.rollouts = 2 /\ Len(test_rewards) = 2
    /\ model.params > 0 /\ optimizer.t = model.params

\* C8: a call of evaluate_model, for any num_steps and video flag, leaves the
\* parameters, the gradients and the optimizer state as they were and writes
\* nothing to the Trajectory Store.
C8_EvaluateChangesNothing ==
    [][/\ model'.params = model.params
       /\ model'.grad = model.grad
       /\ optimizer' = optimizer
       /\ storage' = storage]_vars

\* a call with video over three steps has returned, on trained parameters
C8_Witness ==
    /\ pc = "evaluated" /\ ev.video /\ ev.num_steps = 3 /\ ev.i = 3
    /\ Len(ev.frames) = 3 /\ model.params = 1 /\ optimizer.t = 1

\* C9: in each rollout env.step is called num_steps times, once per stored
\* transition; no action returned by a bootstrap act call reaches env.step;
\* the environment is reset once, before the loop; the observation stored by
\* store_last in one rollout is the first observation stored in the next.
C9_EnvironmentSteps ==
    /\ calls.env_step = calls.store
    /\ calls.env_step <= num_steps
    /\ (calls.rollouts > 0 /\ pc # "collect") => calls.env_step = num_steps
    /\ env.clock = IF calls.rollouts = 0 THEN 0
                   ELSE (calls.rollouts - 1) * num_steps + calls.env_step
    /\ env.last_action \notin calls.boot_actions
    /\ env.resets = IF pc = "start" THEN 0 ELSE 1
    /\ (calls.rollouts >= 2 /\ calls.store >= 1 /\ calls.store_last = 0) =>
          storage.obs[0] = storage.obs[num_steps]
    /\ \A t \in 0..(calls.store - 1) :
          calls.store_last = 0 =>
             storage.obs[t] = <<"train", 1, (calls.rollouts - 1) * num_steps + t>>

\* the second rollout has stored its first transition
C9_Witness ==
    /\ pc = "collect" /\ num_steps = 2 /\ calls.rollouts = 2 /\ calls.store = 1
    /\ storage.obs[0] = <<"train", 1, 2>> /\ storage.obs[2] = <<"train", 1, 2>>
    /\ calls.boot_actions # {}

\* C10: with get_test_error, the evaluation environment is reset once, before
\* training; each interleaved evaluate_model call starts from the observation
\* the call before it returned (the reset observation for the first), and
\* evaluate_model returns the observation of its last eval_env.step.
C10_EvaluationResumes ==
    (get_test_error /\ has_eval_env /\ pc # "start") =>
        /\ eval_env.resets = 1
        /\ eval_env.clock = num_steps * Len(test_rewards)
                               + (IF ev.active THEN ev.i ELSE 0)
        /\ ~ev.active => eval_obs = EnvObs(eval_env)
        /\ pc = "evaluate_model" =>
              /\ ev.start_obs = <<"eval", 1, num_steps * Len(test_rewards)>>
              /\ ev.start_obs = EnvObs(eval_env)
        /\ pc = "evaluated" =>
              /\ ev.result[2] = EnvObs(eval_env)
              /\ ev.result[2] = <<"eval", 1, ev.start_obs[3] + num_steps>>

\* the second interleaved call starts where the first one ended
C10_Witness ==
    /\ get_test_error /\ pc = "evaluate_model" /\ num_steps = 2
    /\ Len(test_rewards) = 1 /\ ev.start_obs = <<"eval", 1, 2>>

\* C11: after compute_return_advantage the stored return of every cell is
\* its stored advantage plus its stored value estimate: R_t = A_t + value_t.
C11_ReturnIsAdvantagePlusValue ==
    pc = "train" =>
        \A t \in 0..(num_steps - 1), k \in Envs :
            storage.returns[t][k] =
                PAdd(storage.advantage[t][k], Const(storage.value[t][k]))

\* a cell whose value estimate is 1 and differs from the next one
C11_Witness ==
    /\ pc = "train" /\ num_steps = 2
    /\ storage.value[0][1] = 1 /\ storage.value[1][1] = 0
    /\ storage.reward[0][1] = 1 /\ ~storage.done[0][1]
    /\ storage.returns[0][1] # storage.advantage[0][1]

\* the window rows of a store
WindowContents(s) == <<[t \in 0..(s.num_steps - 1) |-> s.obs[t]], s.action,
                       s.reward, s.done,
                       [t \in 0..(s.num_steps - 1) |-> s.value[t]]>>

C13_AllOnesReward ==
    /\ env_kind = "ones" =>
          \A j \in 1..Len(train_rewards) :
              train_rewards[j].sum = num_steps * train_rewards[j].over
    /\ (num_envs = 2 /\ num_steps = 4 /\ total_steps = 8) =>
          /\ calls.rollouts <= 1 /\ n_updates <= 1
          /\ pc = "done" =>
                /\ calls.rollouts = 1 /\ n_updates = 1
                /\ steps = <<0>> /\ Len(train_rewards) = 1

C13_Witness ==
    /\ pc = "done" /\ env_kind = "ones"
    /\ num_envs = 2 /\ num_steps = 4 /\ total_steps = 8
    /\ steps = <<0>> /\ train_rewards = <<[sum |-> 8, over |-> 2]>>

\* C14: every optimizer.step uses a gradient whose global norm is at most
\* model.grad_eps: the operation directly before it is clip_grad_norm_, the
\* one before that loss.backward, and the gradient changes nowhere but in
\* loss.backward, clip_grad_norm_ and optimizer.zero_grad.
C14_ClippedAtStep ==
    [][/\ optimizer'.t # optimizer.t =>
             /\ model.grad_norm <= model.grad_eps
             /\ optimizer'.norm_used = model.grad_norm
             /\ Len(calls.ops) >= 2
             /\ calls.ops[Len(calls.ops)] = "clip_grad_norm_"
             /\ calls.ops[Len(calls.ops) - 1] = "backward"
       /\ model'.grad_norm # model.grad_norm =>
             pc \in {"backward", "clip", "zero_grad"}
       /\ pc = "backward" => pc' = "clip"
       /\ pc = "clip" => (pc' = "opt_step" /\ model'.grad_norm <= model.grad_eps)]_vars

\* a minibatch whose gradient norm exceeded the threshold is about to be applied
C14_Witness ==
    /\ pc = "opt_step" /\ optimizer.t >= 1
    /\ LossGradNorm(model, batch) > model.grad_eps
    /\ model.grad_norm = model.grad_eps

\* the clock of eval_env when the current evaluate_model call began
EvalStart == ev.start_obs[3]

\* C15: evaluate_model with num_steps >= 1 steps eval_env exactly num_steps
\* times and returns, per instance, the sum of the rewards of those steps;
\* with video it renders once after each step and hands the num_steps
\* frames, in step order, to save_video once; without video it neither
\* renders nor saves.
C15_EvaluateSteps ==
    ev.active =>
        /\ ev.i <= ev.num_steps /\ Len(ev.total_reward) = ev.i
        /\ eval_env.clock = EvalStart + ev.i
        /\ eval_env.renders = IF ev.video THEN ev.i ELSE 0
        /\ ev.frames = IF ev.video THEN [n \in 1..ev.i |-> EvalStart + n] ELSE <<>>
        /\ pc \in {"evaluate_model", "evaluate"} => ev.saved = <<>>
        /\ (pc = "evaluated" /\ ev.num_steps >= 1) =>
              /\ ev.i = ev.num_steps
              /\ ev.result[1] =
                    [k \in Envs |->
                        SumTo([n \in 0..(ev.num_steps - 1) |->
                                  EnvReward(env_kind, k, EvalStart + n + 1)],
                              ev.num_steps - 1)]
              /\ ev.saved = IF ev.video THEN <<ev.frames>> ELSE <<>>

\* a three-step call with video on the all-ones environment has returned
C15_Witness ==
    /\ pc = "evaluated" /\ ev.video /\ ev.num_steps = 3 /\ env_kind = "ones"
    /\ num_envs = 2 /\ ev.result[1] = [k \in Envs |-> 3]
    /\ ev.saved = <<(<<1, 2, 3>>)>> /\ eval_env.renders = 3

\* C16: in train_model every model.act call (collection, interleaved
\* evaluate_model, bootstrap) is made in evaluation mode and every forward
\* pass of the minibatch loop in training mode, in every rollout, also when
\* evaluate_model has run between collection and update.
C16_Modes ==
    /\ model.act_modes \subseteq {FALSE}
    /\ model.fwd_modes \subseteq {TRUE}
    /\ pc \in {"collect", "evaluate", "bootstrap"} => ~model.training
    /\ pc = "forward" => model.training

\* the second rollout, with an evaluation in it, has done a forward pass
C16_Witness ==
    /\ pc = "criterion" /\ calls.rollouts = 2 /\ Len(test_rewards) = 2
    /\ model.act_modes = {FALSE} /\ model.fwd_modes = {TRUE}
    /\ model.acts = 2 * (2 * num_steps + 1)

\* the observation the training environment returned after its c-th step
TrainObs(c) == <<"train", 1, c>>
\* the environment steps taken before the current rollout began
RolloutBase == (calls.rollouts - 1) * num_steps

\* what holds of the store in every state of train_model
C17_WindowOfThisRollout ==
    /\ storage.allocated => ~storage.failed
    /\ pc \notin {"start", "error"} =>
        /\ storage.allocated
        /\ pc = "collect" => storage.step = calls.store
        /\ calls.rollouts >= 1 =>
              \A t \in 0..(calls.store - 1) :
                  storage.obs[t] = TrainObs(RolloutBase + t)
        /\ pc = "compute" =>
              /\ calls.store = num_steps /\ calls.store_last = 1
              /\ storage.obs[num_steps] = TrainObs(RolloutBase + num_steps)

StatsBlock == {"evaluate_model", "evaluate", "evaluated"}
\* the rollouts that have passed line 142
PastStats ==
    IF pc \in {"start", "while", "collect", "stats", "done", "error"}
    THEN n_updates ELSE n_updates + 1

\* the records made so far and their step values
C18_Records ==
    /\ Len(steps) = CeilDiv(PastStats, update_ite)
    /\ \A j \in 1..Len(steps) :
          steps[j] = (j - 1) * update_ite * num_envs * num_steps
    /\ (pc = "done" \/ (pc = "while" /\ ~LoopCondition /\ total_steps >= 1)) =>
          Len(steps) >= 1

\* C18 as stated: the records are those of the rollouts with
\* n_updates % update_ite = 0, with step values n_updates * num_envs *
\* num_steps, and at all times len(steps) = len(train_rewards), and
\* = len(test_rewards) when get_test_error is true.
C18_EqualLengthsAtAllTimes ==
    /\ C18_Records
    /\ Len(steps) = Len(train_rewards)
    /\ get_test_error => Len(test_rewards) = Len(steps)

\* the lists outside and inside the stats block
C18_Lists ==
    /\ C18_Records
    /\ Len(steps) = Len(train_rewards)
    /\ Len(test_rewards) = IF ~get_test_error THEN 0
                           ELSE IF pc \in StatsBlock THEN Len(steps) - 1
                           ELSE Len(steps)

\* C18: a stats record is made in exactly the rollouts with
\* n_updates % update_ite = 0, after the rollout's collection and before its
\* update; the recorded step is n_updates * num_envs * num_steps (0 for the
\* first record); outside the stats block steps, train_rewards and, with
\* get_test_error, test_rewards have one length, while inside it, as long as
\* evaluate_model runs, test_rewards is one entry short; a run with
\* total_steps >= 1 returns at least one record.
C18_StatsRecords ==
    /\ []C18_Lists
    /\ [][/\ pc = "stats" =>
                /\ calls.store = num_steps /\ calls.store_last = 0
                /\ calls.optimizer_step = 0
                /\ IF n_updates % update_ite = 0
                   THEN /\ steps' = Append(steps, n_updates * num_envs * num_steps)
                        /\ steps'[Len(steps')] = step
                        /\ Len(train_rewards') = Len(train_rewards) + 1
                   ELSE steps' = steps /\ train_rewards' = train_rewards
          /\ pc # "stats" => (steps' = steps /\ train_rewards' = train_rewards)
          /\ test_rewards' # test_rewards =>
                (pc = "evaluated" /\ calls.optimizer_step = 0)]_vars

\* the second record of a run with update_ite = 2, with its test reward
C18_Witness ==
    /\ pc = "add_steps" /\ update_ite = 2 /\ n_updates = 2 /\ get_test_error
    /\ steps = <<0, 2 * num_envs * num_steps>>
    /\ Len(train_rewards) = 2 /\ Len(test_rewards) = 2

\* line 123, written out
C19_UpdateInterval == total_steps \div (num_envs * num_steps * LogDivisor) + 1

\* C19: with update_ite = total_steps // (num_envs*num_steps*100) + 1 a run
\* makes at most 100 stats records, and each recorded step exceeds the one
\* before it by update_ite * num_envs * num_steps.
C19_AtMostHundredRecords ==
    /\ (has_eval_env /\ pc # "start") => update_ite = C19_UpdateInterval
    /\ Len(steps) <= LogDivisor
    /\ \A j \in 1..(Len(steps) - 1) :
          /\ steps[j + 1] = steps[j] + C19_UpdateInterval * num_envs * num_steps
          /\ steps[j + 1] > steps[j]

\* a run of 199 rollouts has returned exactly 100 records
C19_Witness ==
    /\ pc = "done" /\ total_steps = 2 * LogDivisor - 1 /\ n_updates = total_steps
    /\ Len(steps) = LogDivisor /\ steps[LogDivisor] = total_steps - 1

\* C20: train_model called with get_test_error = False and without an
\* evaluation environment (eval_env = None) runs to completion: nothing is
\* done with eval_env, evaluate_model is not called and test_rewards stays
\* empty.
C20_RunsWithoutEvalEnv ==
    (~get_test_error /\ ~has_eval_env /\ total_steps >= 1) =>
        /\ pc # "error"
        /\ eval_env = NewEnv("eval") /\ eval_obs = NoObs
        /\ ~ev.active /\ test_rewards = <<>>

\* the call has failed at line 120, before the first rollout
C20_Witness ==
    /\ ~get_test_error /\ ~has_eval_env /\ total_steps >= 1
    /\ pc = "error" /\ storage.allocated /\ env.resets = 1
    /\ calls.rollouts = 0 /\ train_rewards = <<>>

====
